---- MODULE Spec2Model ----
(***************************************************************************)
(* tools/compile_periodic.py of crystvis-js: the one-pass transform that   *)
(* merges the periodic table (periodictable.elements) with the NMR table   *)
(* (soprano's _nmr_data) into element_data and serialises it as JSON.      *)
(*                                                                         *)
(* Representation of Python values.  A position that can hold values of    *)
(* several Python types (None / number / string: spin, gamma, Q, the       *)
(* most_* pointers, the maxiso* labels, dictionary keys) holds a tagged     *)
(* value PyNone, PyNum(v) or PyStr(s).  Positions whose type never changes *)
(* (Z, A, abundance: numbers; symbol, mass: printed literals) hold the     *)
(* bare value.  Abundances are whole numbers of percent, spins are in      *)
(* units of 1/2, a float is written as its printed literal.                *)
(***************************************************************************)
EXTENDS Integers, Sequences, FiniteSets, TLC

(* ------------------------------ bounds --------------------------------- *)
NumEl == 1      \* rows of the element table that are iterated
MaxIso == 2     \* isotopes in the whole table; mass numbers are 1..MaxIso
MaxAb == 2      \* abundances are 0..MaxAb

(* --------------------------- Python values ----------------------------- *)
PyNone == <<"None">>
PyNum(v) == <<"num", v>>
PyStr(s) == <<"str", s>>

\* bool(x) of a tagged value: None, 0 and "" are falsy
Truthy(x) == x # PyNone /\ x # PyNum(0) /\ x # PyStr("")

Digits == <<"0", "1", "2", "3", "4", "5", "6", "7", "8", "9">>

\* str(n) for a non-negative int: its decimal digits
RECURSIVE str(_)
str(n) == IF n < 10 THEN Digits[n + 1]
          ELSE str(n \div 10) \o Digits[(n % 10) + 1]

\* d.get(k, default)
Get(d, k, default) == IF k \in DOMAIN d THEN d[k] ELSE default

\* min(a, b)
min(a, b) == IF b < a THEN b ELSE a

EmptyDict == [k \in {} |-> PyNone]

(* ------------------------------ inputs --------------------------------- *)
\* `for el in elements`: rows of the table, which starts with the neutron
\* (Z = 0); the iterated table is a subsequence of these rows
ElementSymbols == <<"n", "H">>

ElSymbol(i) == ElementSymbols[i]
ElNumber(i) == i - 1

\* iso.mass of the isotope with mass number A, as a printed float
IsoMass(A) == str(A) \o ".0078"

MuMass == "0.113428913072988"

\* what nmr.get(str(A), {}) can return: no record, a spin-0 nucleus, a
\* spin-1/2 nucleus (no quadrupole moment), a quadrupolar nucleus (spin 1),
\* and a partial record that has a quadrupole moment but no spin entry
NoRecord == EmptyDict
SpinZero == [I |-> PyNum(0), gamma |-> PyNum(0), Q |-> PyNum(0)]
SpinHalf == [I |-> PyNum(1), gamma |-> PyNum(267), Q |-> PyNum(0)]
Quadrupolar == [I |-> PyNum(2), gamma |-> PyNum(41), Q |-> PyNum(3)]
QOnly == [Q |-> PyNum(3)]
NmrRecords == {NoRecord, SpinZero, SpinHalf, Quadrupolar, QOnly}

VARIABLES pc, nEl, nIso, elIdx, sym, data, most_iso, most_iso_ab,
          most_NMR_iso, most_NMR_iso_ab, most_Q_iso, most_Q_iso_ab, src,
          element_data, jsonstr

vars == <<pc, nEl, nIso, elIdx, sym, data, most_iso, most_iso_ab,
          most_NMR_iso, most_NMR_iso_ab, most_Q_iso, most_Q_iso_ab, src,
          element_data, jsonstr>>

(* ------------------------- the loop body ------------------------------- *)
\* lines 11-13: the neutron is renamed to muonium
Symbol(s) == IF s = "n" THEN "Mu" ELSE s

\* the override tests the symbol of the table instead of the renamed one
Mass_NoOverride(s, m) == IF s = "n" THEN MuMass ELSE m

\* lines 35-37
Mass(s, m) == IF s = "Mu" THEN MuMass ELSE m

\* the abundance test is lost
NotInNature_Never(ab) == FALSE

\* line 41
NotInNature(ab) == ab = 0

\* the rule of the comment at lines 49-50: only the NMR maximum counts
Discarded_NMROnly(spin, ab, nmr_ab, q_ab) == spin = PyNone /\ ab < nmr_ab

\* the comparison is not strict
Discarded_NotStrict(spin, ab, nmr_ab, q_ab) ==
    spin = PyNone /\ ab <= min(nmr_ab, q_ab)

\* lines 52-54: no spin data and less abundant than both running maxima
Discarded(spin, ab, nmr_ab, q_ab) == spin = PyNone /\ ab < min(nmr_ab, q_ab)

\* the default of line 56 is lost
Spin_NoDefault(spin) == spin

\* lines 52-56: the spin that is carried on
Spin(spin) == IF spin = PyNone THEN PyNum(0) ELSE spin

\* the abundance comparison is lost: the last isotope recorded wins
NewMost_Last(ab, most_ab) == TRUE

\* line 58
NewMost(ab, most_ab) == ab > most_ab

\* the `and spin` of line 62 is lost
NewMostNMR_AnySpin(ab, most_ab, spin) == ab > most_ab

\* line 62
NewMostNMR(ab, most_ab, spin) == ab > most_ab /\ Truthy(spin)

\* line 66
NewMostQ(ab, most_ab, Q) == ab > most_ab /\ Truthy(Q)

\* lines 70-77
IsotopeRecord(A, mass, ab, spin, gamma, Q) ==
    [A |-> A, mass |-> mass, abundance |-> ab, spin |-> spin,
     gamma |-> gamma, Q |-> Q]

\* the test is made on the NMR pointer
NoUsefulInfo_NMR(mi, mn, mq) == mn = PyNone

\* line 79
NoUsefulInfo(mi, mn, mq) == mi = PyNone

\* lines 83-85: str(x) if x else None
Label(x) == IF Truthy(x) THEN PyStr(str(x[2])) ELSE PyNone

(* ------------------------------- JSON ---------------------------------- *)
JNull == <<"null">>
JNumber(v) == <<"number", v>>
JString(s) == <<"string", s>>

\* json.dumps of a leaf value
DumpValue(x) == IF x = PyNone THEN JNull
                ELSE IF x[1] = "num" THEN JNumber(x[2])
                ELSE JString(x[2])

\* json.dumps of a dictionary key: an int key is written as its digits
DumpKey(k) == IF k[1] = "num" THEN str(k[2]) ELSE k[2]

DumpIsotope(r) == [A |-> JNumber(r.A), mass |-> JNumber(r.mass),
                   abundance |-> JNumber(r.abundance),
                   spin |-> DumpValue(r.spin), gamma |-> DumpValue(r.gamma),
                   Q |-> DumpValue(r.Q)]

DumpIsotopes(d) ==
    [s \in {DumpKey(k) : k \in DOMAIN d} |->
        DumpIsotope(d[CHOOSE k \in DOMAIN d : DumpKey(k) = s])]

DumpElement(e) == [symbol |-> JString(e.symbol), Z |-> JNumber(e.Z),
                   isotopes |-> DumpIsotopes(e.isotopes),
                   maxiso |-> DumpValue(e.maxiso),
                   maxiso_NMR |-> DumpValue(e.maxiso_NMR),
                   maxiso_Q |-> DumpValue(e.maxiso_Q)]

\* line 89
Dumps(ed) == [s \in DOMAIN ed |-> DumpElement(ed[s])]

\* json.loads: object keys come back as strings
LoadValue(j) == IF j = JNull THEN PyNone
                ELSE IF j[1] = "number" THEN PyNum(j[2])
                ELSE PyStr(j[2])

LoadIsotope(j) == [A |-> j.A[2], mass |-> j.mass[2],
                   abundance |-> j.abundance[2],
                   spin |-> LoadValue(j.spin), gamma |-> LoadValue(j.gamma),
                   Q |-> LoadValue(j.Q)]

LoadIsotopes(j) ==
    [k \in {PyStr(s) : s \in DOMAIN j} |-> LoadIsotope(j[k[2]])]

LoadElement(j) == [symbol |-> j.symbol[2], Z |-> j.Z[2],
                   isotopes |-> LoadIsotopes(j.isotopes),
                   maxiso |-> LoadValue(j.maxiso),
                   maxiso_NMR |-> LoadValue(j.maxiso_NMR),
                   maxiso_Q |-> LoadValue(j.maxiso_Q)]

Loads(js) == [s \in DOMAIN js |-> LoadElement(js[s])]

(* --------------------- the inner loop as a function -------------------- *)
\* lines 21-29
InitLocals == [isotopes |-> EmptyDict,
               most_iso |-> PyNone, most_iso_ab |-> 0,
               most_NMR_iso |-> PyNone, most_NMR_iso_ab |-> 0,
               most_Q_iso |-> PyNone, most_Q_iso_ab |-> 0]

\* lines 35-77: one pass of the body of `for iso in el` over the locals L
\* of the element with (renamed) symbol sy
LoopBody(L, sy, iso) ==
    LET A == iso.A
        ab == iso.abundance
        mass == Mass(sy, IsoMass(A))
        spin0 == Get(iso.nmr, "I", PyNone)
        gamma == Get(iso.nmr, "gamma", PyNone)
        Q == Get(iso.nmr, "Q", PyNone)
        spin == Spin(spin0)
    IN
    IF NotInNature(ab) THEN L
    ELSE IF Discarded(spin0, ab, L.most_NMR_iso_ab, L.most_Q_iso_ab) THEN L
    ELSE [isotopes |-> (PyNum(A) :> IsotopeRecord(A, mass, ab, spin, gamma, Q))
                        @@ L.isotopes,
          most_iso |-> IF NewMost(ab, L.most_iso_ab)
                       THEN PyNum(A) ELSE L.most_iso,
          most_iso_ab |-> IF NewMost(ab, L.most_iso_ab)
                          THEN ab ELSE L.most_iso_ab,
          most_NMR_iso |-> IF NewMostNMR(ab, L.most_NMR_iso_ab, spin)
                           THEN PyNum(A) ELSE L.most_NMR_iso,
          most_NMR_iso_ab |-> IF NewMostNMR(ab, L.most_NMR_iso_ab, spin)
                              THEN ab ELSE L.most_NMR_iso_ab,
          most_Q_iso |-> IF NewMostQ(ab, L.most_Q_iso_ab, Q)
                         THEN PyNum(A) ELSE L.most_Q_iso,
          most_Q_iso_ab |-> IF NewMostQ(ab, L.most_Q_iso_ab, Q)
                            THEN ab ELSE L.most_Q_iso_ab]

\* lines 21-77: the locals after the whole isotope list has been iterated
RECURSIVE RunLoop(_, _)
RunLoop(sy, isos) ==
    IF isos = <<>> THEN InitLocals
    ELSE LoopBody(RunLoop(sy, SubSeq(isos, 1, Len(isos) - 1)), sy,
                  isos[Len(isos)])

(* ------------------------------ actions -------------------------------- *)
Init ==
    /\ pc = "outer"
    /\ nEl = 0
    /\ nIso = 0
    /\ elIdx = 0
    /\ sym = ""
    /\ data = [symbol |-> "", Z |-> 0, isotopes |-> EmptyDict]
    /\ most_iso = PyNone
    /\ most_iso_ab = 0
    /\ most_NMR_iso = PyNone
    /\ most_NMR_iso_ab = 0
    /\ most_Q_iso = PyNone
    /\ most_Q_iso_ab = 0
    /\ src = <<>>
    /\ element_data = [s \in {} |-> 0]
    /\ jsonstr = [s \in {} |-> 0]

\* lines 7-31: the outer loop takes the next element, row i of the table
NextElement(i) ==
    /\ pc = "outer"
    /\ nEl < NumEl
    /\ i > elIdx
    /\ nEl' = nEl + 1
    /\ elIdx' = i
    /\ sym' = Symbol(ElSymbol(i))
    /\ data' = [symbol |-> Symbol(ElSymbol(i)), Z |-> ElNumber(i),
                isotopes |-> EmptyDict]
    /\ most_iso' = InitLocals.most_iso
    /\ most_iso_ab' = InitLocals.most_iso_ab
    /\ most_NMR_iso' = InitLocals.most_NMR_iso
    /\ most_NMR_iso_ab' = InitLocals.most_NMR_iso_ab
    /\ most_Q_iso' = InitLocals.most_Q_iso
    /\ most_Q_iso_ab' = InitLocals.most_Q_iso_ab
    /\ src' = <<>>
    /\ pc' = "inner"
    /\ UNCHANGED <<nIso, element_data, jsonstr>>

\* the locals of the running inner loop
Locals == [isotopes |-> data.isotopes,
           most_iso |-> most_iso, most_iso_ab |-> most_iso_ab,
           most_NMR_iso |-> most_NMR_iso, most_NMR_iso_ab |-> most_NMR_iso_ab,
           most_Q_iso |-> most_Q_iso, most_Q_iso_ab |-> most_Q_iso_ab]

SeenA == {src[i].A : i \in 1..Len(src)}

\* lines 33-77: `for iso in el` yields the next isotope.  Its mass number,
\* abundance and NMR record are the inputs (the NMR table is only read,
\* line 44, for an isotope that occurs in nature); src keeps what the
\* iteration has yielded so far for the current element, nIso counts the
\* isotopes yielded over the whole table.
ProcessIsotope(A, ab, iso_nmr) ==
    LET iso == [A |-> A, abundance |-> ab, nmr |-> iso_nmr]
        N == LoopBody(Locals, sym, iso)
    IN
    /\ pc = "inner"
    /\ nIso < MaxIso
    /\ nIso' = nIso + 1
    /\ A \notin SeenA
    /\ src' = Append(src, iso)
    /\ data' = [data EXCEPT !.isotopes = N.isotopes]
    /\ most_iso' = N.most_iso
    /\ most_iso_ab' = N.most_iso_ab
    /\ most_NMR_iso' = N.most_NMR_iso
    /\ most_NMR_iso_ab' = N.most_NMR_iso_ab
    /\ most_Q_iso' = N.most_Q_iso
    /\ most_Q_iso_ab' = N.most_Q_iso_ab
    /\ UNCHANGED <<pc, nEl, elIdx, sym, element_data, jsonstr>>

\* lines 79-87: the isotopes of the element are exhausted
EndElement ==
    /\ pc = "inner"
    /\ pc' = "outer"
    /\ element_data' =
         IF NoUsefulInfo(most_iso, most_NMR_iso, most_Q_iso)
         THEN element_data
         ELSE (sym :> [symbol |-> data.symbol, Z |-> data.Z,
                       isotopes |-> data.isotopes,
                       maxiso |-> Label(most_iso),
                       maxiso_NMR |-> Label(most_NMR_iso),
                       maxiso_Q |-> Label(most_Q_iso)]) @@ element_data
    /\ UNCHANGED <<nEl, nIso, elIdx, sym, data, most_iso, most_iso_ab,
                   most_NMR_iso, most_NMR_iso_ab, most_Q_iso, most_Q_iso_ab,
                   src, jsonstr>>

\* line 89: the table is exhausted
Serialize ==
    /\ pc = "outer"
    /\ jsonstr' = Dumps(element_data)
    /\ pc' = "done"
    /\ UNCHANGED <<nEl, nIso, elIdx, sym, data, most_iso, most_iso_ab,
                   most_NMR_iso, most_NMR_iso_ab, most_Q_iso, most_Q_iso_ab,
                   src, element_data>>

Next ==
    \/ \E i \in 1..Len(ElementSymbols) : NextElement(i)
    \/ \E A \in 1..MaxIso, ab \in 0..MaxAb, r \in NmrRecords :
          /\ (ab = 0 => r = NoRecord)
          /\ ProcessIsotope(A, ab, r)
    \/ EndElement
    \/ Serialize

Spec == Init /\ [][Next]_vars

(* ---------------------------- properties ------------------------------- *)
\* the inner loop of the current element is over and lines 79-87 have run
Finished == pc # "inner" /\ nEl > 0

\* the current element is in the output
Emitted == Finished /\ sym \in DOMAIN element_data

SrcIdx == 1..Len(src)

\* the NMR table has no spin for the i-th isotope yielded
SpinUnknown(i) == Get(src[i].nmr, "I", PyNone) = PyNone

\* the i-th isotope yielded is recorded in the isotopes mapping
Recorded(i) == PyNum(src[i].A) \in DOMAIN data.isotopes

\* the largest abundance among the isotopes yielded (0 if there is none)
MaxAbundance ==
    IF \E i \in SrcIdx : src[i].abundance # 0
    THEN CHOOSE m \in {src[i].abundance : i \in SrcIdx} :
            \A i \in SrcIdx : src[i].abundance <= m
    ELSE 0

\* the reorderings of the isotopes yielded
Reorderings ==
    {[i \in SrcIdx |-> src[p[i]]] :
        p \in {q \in [SrcIdx -> SrcIdx] :
                 \A i, j \in SrcIdx : q[i] = q[j] => i = j}}

\* the emitted label x names the key k of an isotopes mapping
Names(x, k) == k[1] = "num" /\ x = PyStr(str(k[2]))

\* C1: for every emitted element maxiso, when present, is the string form
\* of a mass number that is a key of the element's isotopes mapping, and that
\* isotope is at least as abundant as every isotope of the mapping.
C1_MaxIso ==
    \A s \in DOMAIN element_data :
        LET e == element_data[s] IN
        e.maxiso # PyNone =>
            \E k \in DOMAIN e.isotopes :
                /\ Names(e.maxiso, k)
                /\ \A j \in DOMAIN e.isotopes :
                      e.isotopes[j].abundance <= e.isotopes[k].abundance

\* an element is emitted with two isotopes, the second yielded being named
C1_Witness ==
    /\ Emitted
    /\ Len(src) = 2 /\ Recorded(1) /\ Recorded(2)
    /\ src[1].abundance < src[2].abundance
    /\ element_data[sym].maxiso = PyStr(str(src[2].A))

\* C2: for every emitted element maxiso_NMR, when present, names an isotope
\* of the mapping whose recorded spin is truthy, no isotope of the mapping
\* with truthy spin is strictly more abundant, and an isotope whose spin was
\* defaulted to 0 is never the NMR pointer.
C2_MaxIsoNMR ==
    /\ \A s \in DOMAIN element_data :
          LET e == element_data[s] IN
          e.maxiso_NMR # PyNone =>
              \E k \in DOMAIN e.isotopes :
                  /\ Names(e.maxiso_NMR, k)
                  /\ Truthy(e.isotopes[k].spin)
                  /\ \A j \in DOMAIN e.isotopes :
                        Truthy(e.isotopes[j].spin) =>
                            e.isotopes[j].abundance <= e.isotopes[k].abundance
    /\ \A i \in SrcIdx :
          SpinUnknown(i) =>
              /\ most_NMR_iso # PyNum(src[i].A)
              /\ Emitted => element_data[sym].maxiso_NMR # PyStr(str(src[i].A))

\* an element is emitted whose NMR pointer names the less abundant isotope,
\* the more abundant one having been recorded with a defaulted spin
C2_Witness ==
    /\ Emitted
    /\ Len(src) = 2 /\ Recorded(1) /\ Recorded(2)
    /\ SpinUnknown(2) /\ src[2].abundance > src[1].abundance
    /\ element_data[sym].maxiso_NMR = PyStr(str(src[1].A))

\* C3: once an element has been processed it is in the output if and only
\* if one of its isotopes has non-zero abundance, and then its isotopes
\* mapping is not empty.
C3_EmittedIff ==
    Finished =>
        /\ sym \in DOMAIN element_data <=>
               \E i \in SrcIdx : src[i].abundance # 0
        /\ sym \in DOMAIN element_data =>
               DOMAIN element_data[sym].isotopes # {}

\* an element is emitted although the retention rule discarded an isotope
C3_Witness ==
    /\ Emitted
    /\ \E i \in SrcIdx : src[i].abundance # 0 /\ ~Recorded(i)

\* an element whose isotopes all have abundance 0 is left out
C3_WitnessAbsent ==
    /\ Finished /\ Len(src) > 0
    /\ \A i \in SrcIdx : src[i].abundance = 0
    /\ sym \notin DOMAIN element_data

\* C4: an isotope of abundance 0 is in no isotopes mapping, and the pass of
\* the loop that yields it leaves the three running maxima and the isotopes
\* mapping unchanged.
C4_ZeroAbundance ==
    [][ /\ \A i \in 1..Len(src') : src'[i].abundance = 0 => ~Recorded(i)'
        /\ \A s \in DOMAIN element_data' :
              \A k \in DOMAIN element_data'[s].isotopes :
                  element_data'[s].isotopes[k].abundance # 0
        /\ (Len(src') = Len(src) + 1 /\ src'[Len(src')].abundance = 0) =>
              UNCHANGED <<data, most_iso, most_iso_ab, most_NMR_iso,
                          most_NMR_iso_ab, most_Q_iso, most_Q_iso_ab>>
      ]_vars

\* an isotope of abundance 0 was yielded after one that was recorded
C4_Witness ==
    /\ Emitted
    /\ Len(src) = 2 /\ Recorded(1) /\ src[2].abundance = 0

\* C5: every recorded isotope has a spin; a spin known from the NMR table is
\* recorded unchanged; an isotope of unknown spin is recorded exactly when
\* it passes the retention rule, and then with spin 0.
C5_SpinDefined ==
    /\ \A s \in DOMAIN element_data :
          \A k \in DOMAIN element_data[s].isotopes :
              element_data[s].isotopes[k].spin # PyNone
    /\ \A i \in SrcIdx :
          LET k == PyNum(src[i].A)
              before == RunLoop(sym, SubSeq(src, 1, i - 1))
          IN
          src[i].abundance # 0 =>
              IF SpinUnknown(i)
              THEN /\ Recorded(i) <=>
                        ~(src[i].abundance < before.most_NMR_iso_ab /\
                          src[i].abundance < before.most_Q_iso_ab)
                   /\ Recorded(i) => data.isotopes[k].spin = PyNum(0)
              ELSE /\ Recorded(i)
                   /\ data.isotopes[k].spin = src[i].nmr["I"]

\* a spin of 0 from the table, a non-zero spin and a defaulted spin are all
\* on record
C5_Witness ==
    /\ Emitted
    /\ Len(src) = 2 /\ Recorded(1) /\ Recorded(2)
    /\ SpinUnknown(1) /\ ~SpinUnknown(2)
    /\ Truthy(data.isotopes[PyNum(src[2].A)].spin)

\* C6: no output key or symbol field is 'n'; the neutron row is emitted, if
\* at all, under key and symbol 'Mu' with every mass equal to the muonium
\* constant; the masses of every other element are the source masses.
C6_Muonium ==
    /\ "n" \notin DOMAIN element_data
    /\ \A s \in DOMAIN element_data :
          LET e == element_data[s] IN
          /\ e.symbol = s
          /\ e.symbol # "n"
          /\ \A k \in DOMAIN e.isotopes :
                e.isotopes[k].mass =
                    IF s = "Mu" THEN MuMass ELSE IsoMass(e.isotopes[k].A)
    /\ (Emitted /\ ElSymbol(elIdx) = "n") => sym = "Mu"
    /\ (Emitted /\ ElSymbol(elIdx) # "n") => sym = ElSymbol(elIdx)

\* the neutron row is emitted with two isotopes of different source masses
C6_Witness ==
    /\ Emitted /\ ElSymbol(elIdx) = "n"
    /\ Len(src) = 2 /\ Recorded(1) /\ Recorded(2)
    /\ IsoMass(src[1].A) # IsoMass(src[2].A)

\* C7: parsing the emitted JSON back reproduces the in-memory element
\* records exactly, the keys of the isotopes mappings included.
C7_RoundTrip == pc = "done" => Loads(jsonstr) = element_data

\* C8: an isotope without spin data that is less abundant than an
\* NMR-active isotope processed before it is not recorded.
C8_SkippedBelowNMR ==
    \A i, j \in SrcIdx :
        ( /\ i < j
          /\ Recorded(i) /\ Truthy(data.isotopes[PyNum(src[i].A)].spin)
          /\ SpinUnknown(j) /\ src[j].abundance # 0
          /\ src[j].abundance < src[i].abundance )
        => ~Recorded(j)

====
